---- MODULE Spec2Model ----
(***************************************************************************)
(* Model of src/src/blockchain.js (class Blockchain).                      *)
(*                                                                         *)
(* The class runs on the JavaScript event loop: every async method runs    *)
(* synchronously up to its next `await`, and the continuation after an     *)
(* await is a microtask.  Microtasks run one at a time in FIFO order.  An  *)
(* action of this model is one synchronous segment of the code: the start  *)
(* of a public method up to its first await, or one continuation up to the *)
(* next await.  Callers may start new calls, and the clock may advance,    *)
(* between any two segments.                                               *)
(*                                                                         *)
(* JS index k of this.chain is index k + 1 of the sequence `chain`.        *)
(***************************************************************************)
EXTENDS Integers, Sequences, FiniteSets, TLC

\* ---------------------------------------------------------------- bounds
MaxCalls == 2            \* calls a client starts on the instance
MaxTicks == 1            \* clock advances of one second
MaxTampers == 1          \* in-place mutations of a handed-out block
PreStars == 1            \* star blocks appended by calls that returned earlier

\* ------------------------------------------------------- program constants
FreshnessWindow == 300   \* seconds, blockchain.js:131

VARIABLES chain, height, nowMs, mq, calls, tampers
vars == <<chain, height, nowMs, mq, calls, tampers>>

\* ------------------------------------------------------------ input sets
NULL == <<>>
InitialTimeMs == 400 * 1000
Addresses == {"addrA", "addrB"}
Stars == {"star1"}

\* A message is the list of its colon-delimited fields.  A field is either
\* text that begins with a decimal number ([num |-> n]) or other text.  The
\* timestamps are 299 and 300 seconds before the initial clock value (so one
\* tick later they are 300 and 301 seconds old) and one in the future.
Sec(ms) == ms \div 1000                 \* getTime().toString().slice(0, -3)
TimeFields ==
    {[num |-> Sec(InitialTimeMs) - d] : d \in {FreshnessWindow - 1, FreshnessWindow, -5}}
        \cup {[text |-> "abc"]}
Messages ==
    {<<[text |-> "addrA"], f, [text |-> "starRegistry"]>> : f \in TimeFields}
        \cup {<<[text |-> "addrA"]>>}
\* A signature names the key that made it and the message it was made over;
\* a client sends one made over its message or over some other text.
Decoy == <<[text |-> "decoy"]>>
Signatures(message) == [signer : Addresses, message : {message, Decoy}]

\* ------------------------------------------------------- pure functions
\* JS numbers that may be NaN: a set holding at most one integer.
NaN == {}
Split(message) == message               \* message.split(':')
ParseInt(fields, k) ==                  \* parseInt(fields[k])
    IF k + 1 <= Len(fields) /\ "num" \in DOMAIN fields[k + 1]
    THEN {fields[k + 1].num} ELSE NaN
Minus(a, b) == {x - y : x \in a, y \in b}
GreaterThan(a, n) == \E x \in a : x > n

\* currentTime - messageTime > 300
Expired_Inclusive(currentTime, messageTime) ==
    \E x \in Minus(currentTime, messageTime) : x >= FreshnessWindow
Expired(currentTime, messageTime) ==
    GreaterThan(Minus(currentTime, messageTime), FreshnessWindow)

\* bitcoinMessage.verify(message, address, signature)
Verify(message, address, signature) ==
    signature.signer = address /\ signature.message = message

\* Block (block.js): constructor, serialisation, validate
Encode(data) == data                    \* hex(JSON.stringify(data)), as the key/value list
GenesisData == <<"data", "Genesis Block">>
StarData(address, star) == <<"owner", address, "data", star>>
NewBlock(data) ==
    [hash |-> NULL, height |-> 0, body |-> Encode(data), time |-> 0,
     previousBlockHash |-> NULL]
NoBlock == NewBlock(<<>>)
JSONstringify(b) == <<b.hash, b.height, b.body, b.time, b.previousBlockHash>>
SHA256(s) == <<"sha256", s>>
Validate(b) == b.hash = SHA256(JSONstringify([b EXCEPT !.hash = NULL]))
\* getBData(): the body decoded back into the object it was made from
Decode(body) ==
    LET pairs == 1 .. (Len(body) \div 2)
    IN  [key \in {body[2 * j - 1] : j \in pairs} |->
            body[2 * (CHOOSE j \in pairs : body[2 * j - 1] = key)]]
Owner(blockData) ==
    IF "owner" \in DOMAIN blockData THEN blockData["owner"] ELSE "undefined"

\* ------------------------------------------------------------ call state
Calls == 0 .. MaxCalls                  \* call 0 is the constructor's initializeChain
IdleCall ==
    [op |-> "none", pc |-> "idle", block |-> NoBlock, errorLog |-> <<>>,
     i |-> 0, valid |-> TRUE, promise |-> "pending", ref |-> -1,
     address |-> "", blockData |-> <<>>, value |-> <<>>, result |-> "pending"]
Enqueue(q, c, cs) == IF cs.pc = "done" THEN q ELSE Append(q, c)
CanStart(c) ==
    /\ c \in 1 .. MaxCalls
    /\ calls[c].pc = "idle"
    /\ calls[c - 1].pc # "idle"
Runs(c, label) == mq # <<>> /\ Head(mq) = c /\ calls[c].pc = label

\* ------------------------------------------------------ validateChain
ValidateChainReturn(cs) ==
    IF cs.op = "validateChain"
    THEN [cs EXCEPT !.pc = "done", !.result = "resolved", !.i = 0]
    ELSE [cs EXCEPT !.pc = "_addBlock:65", !.i = 0]
\* the loop test `i <= this.height` and the call of chain[i].validate()
LoopTest(cs, n) ==
    IF n <= height
    THEN [cs EXCEPT !.i = n, !.valid = Validate(chain[n + 1]), !.pc = "validateChain:197"]
    ELSE ValidateChainReturn(cs)
ValidateChainCall(cs) == LoopTest([cs EXCEPT !.errorLog = <<>>], 1)
Err(kind, hash) == [kind |-> kind, hash |-> hash]
LoopBody_SelfOnly(cs) ==
    [cs EXCEPT !.errorLog = IF ~cs.valid
                            THEN Append(cs.errorLog, Err("invalid", chain[cs.i + 1].hash))
                            ELSE cs.errorLog,
               !.valid = TRUE]
LoopBody_LinkFirst(cs) ==
    LET e1 == IF chain[cs.i + 1].previousBlockHash # chain[cs.i].hash
              THEN Append(cs.errorLog, Err("previous", chain[cs.i + 1].hash))
              ELSE cs.errorLog
        e2 == IF ~cs.valid
              THEN Append(e1, Err("invalid", chain[cs.i + 1].hash))
              ELSE e1
    IN  [cs EXCEPT !.errorLog = e2, !.valid = TRUE]
LoopBody(cs) ==
    LET e1 == IF ~cs.valid
              THEN Append(cs.errorLog, Err("invalid", chain[cs.i + 1].hash))
              ELSE cs.errorLog
        e2 == IF chain[cs.i + 1].previousBlockHash # chain[cs.i].hash
              THEN Append(e1, Err("previous", chain[cs.i + 1].hash))
              ELSE e1
    IN  [cs EXCEPT !.errorLog = e2, !.valid = TRUE]

\* the list a validateChain run returns when nothing interleaves with it
RECURSIVE ValidateChainResult(_, _)
ValidateChainResult(ch, h) ==
    IF h < 1 THEN <<>>
    ELSE ValidateChainResult(ch, h - 1)
            \o (IF ~Validate(ch[h + 1]) THEN <<Err("invalid", ch[h + 1].hash)>> ELSE <<>>)
            \o (IF ch[h + 1].previousBlockHash # ch[h].hash
                THEN <<Err("previous", ch[h + 1].hash)>> ELSE <<>>)

ValidateChain(c) ==
    /\ CanStart(c)
    /\ LET cs == ValidateChainCall([IdleCall EXCEPT !.op = "validateChain"])
       IN  /\ calls' = [calls EXCEPT ![c] = cs]
           /\ mq' = Enqueue(mq, c, cs)
    /\ UNCHANGED <<chain, height, nowMs, tampers>>

ValidateChainResume(c) ==
    /\ Runs(c, "validateChain:197")
    /\ LET cs == LoopTest(LoopBody(calls[c]), calls[c].i + 1)
       IN  /\ calls' = [calls EXCEPT ![c] = cs]
           /\ mq' = Enqueue(Tail(mq), c, cs)
    /\ UNCHANGED <<chain, height, nowMs, tampers>>

\* ---------------------------------------------------------- _addBlock
NewHeight_NoIncrement(h) == h
NewHeight(h) == h + 1
PreviousHash_Stale(ch, h, b) ==
    IF h > 1 THEN ch[h - 1].hash ELSE IF h > 0 THEN ch[h].hash ELSE b.previousBlockHash
PreviousHash(ch, h, b) ==
    IF h > 0 THEN ch[h].hash ELSE b.previousBlockHash
Seal_BeforeTime(b, h, t, prev) ==
    LET early == [b EXCEPT !.height = h, !.previousBlockHash = prev]
    IN  [early EXCEPT !.time = t, !.hash = SHA256(JSONstringify(early))]
Seal_NoHash(b, h, t, prev) ==
    [b EXCEPT !.height = h, !.time = t, !.previousBlockHash = prev]
Seal(b, h, t, prev) ==
    LET filled == [b EXCEPT !.height = h, !.time = t, !.previousBlockHash = prev]
    IN  [filled EXCEPT !.hash = SHA256(JSONstringify(filled))]

ChainInvalid_OffByOne(errorLog) == Len(errorLog) > 1
ChainInvalid(errorLog) == Len(errorLog) > 0

AddBlockCall(cs, b) == ValidateChainCall([cs EXCEPT !.block = b])

AddBlockResume(c) ==
    /\ Runs(c, "_addBlock:65")
    /\ LET cs == calls[c]
           awaiting == IF cs.op = "initializeChain" THEN "initializeChain:38" ELSE "submitStar:142"
       IN  IF ChainInvalid(cs.errorLog)
           THEN /\ calls' = [calls EXCEPT ![c] =
                        [cs EXCEPT !.pc = awaiting, !.promise = "The chain is invalid",
                                   !.errorLog = <<>>, !.block = NoBlock]]
                /\ UNCHANGED <<chain, height>>
           ELSE LET h == NewHeight(height)
                    b == Seal(cs.block, h, Sec(nowMs), PreviousHash(chain, h, cs.block))
                IN  /\ height' = h
                    /\ chain' = Append(chain, b)
                    /\ calls' = [calls EXCEPT ![c] =
                            [cs EXCEPT !.pc = awaiting, !.promise = "fulfilled",
                                       !.block = NoBlock, !.ref = Len(chain)]]
    /\ mq' = Append(Tail(mq), c)
    /\ UNCHANGED <<nowMs, tampers>>

\* ------------------------------------------------------ initializeChain
InitializeChainCall(cs) ==
    IF height = -1
    THEN AddBlockCall(cs, NewBlock(GenesisData))
    ELSE [cs EXCEPT !.pc = "done", !.result = "resolved"]

InitializeChain(c) ==
    /\ CanStart(c)
    /\ LET cs == InitializeChainCall([IdleCall EXCEPT !.op = "initializeChain"])
       IN  /\ calls' = [calls EXCEPT ![c] = cs]
           /\ mq' = Enqueue(mq, c, cs)
    /\ UNCHANGED <<chain, height, nowMs, tampers>>

Settle(cs) ==
    [cs EXCEPT !.pc = "done", !.promise = "pending",
               !.result = IF cs.promise = "fulfilled" THEN "resolved" ELSE cs.promise]

InitializeChainResume(c) ==
    /\ Runs(c, "initializeChain:38")
    /\ calls' = [calls EXCEPT ![c] = Settle(calls[c])]
    /\ mq' = Tail(mq)
    /\ UNCHANGED <<chain, height, nowMs, tampers>>

\* ----------------------------------------------------------- submitStar
SubmitStarCall_VerifyFirst(cs, address, message, signature, star) ==
    LET messageTime == ParseInt(Split(message), 1)
        currentTime == {Sec(nowMs)}
    IN  IF ~Verify(message, address, signature)
        THEN [cs EXCEPT !.pc = "done", !.result = "Couldn't verify message"]
        ELSE IF Expired(currentTime, messageTime)
        THEN [cs EXCEPT !.pc = "done", !.result = "Message timed out"]
        ELSE AddBlockCall(cs, NewBlock(StarData(address, star)))
SubmitStarCall_OncePerStar(cs, address, message, signature, star) ==
    LET messageTime == ParseInt(Split(message), 1)
        currentTime == {Sec(nowMs)}
    IN  IF Expired(currentTime, messageTime)
        THEN [cs EXCEPT !.pc = "done", !.result = "Message timed out"]
        ELSE IF \/ ~Verify(message, address, signature)
                \/ \E k \in 1 .. Len(chain) : chain[k].body = Encode(StarData(address, star))
        THEN [cs EXCEPT !.pc = "done", !.result = "Couldn't verify message"]
        ELSE AddBlockCall(cs, NewBlock(StarData(address, star)))
SubmitStarCall(cs, address, message, signature, star) ==
    LET messageTime == ParseInt(Split(message), 1)
        currentTime == {Sec(nowMs)}
    IN  IF Expired(currentTime, messageTime)
        THEN [cs EXCEPT !.pc = "done", !.result = "Message timed out"]
        ELSE IF ~Verify(message, address, signature)
        THEN [cs EXCEPT !.pc = "done", !.result = "Couldn't verify message"]
        ELSE AddBlockCall(cs, NewBlock(StarData(address, star)))

SubmitStar(c, address, message, signature, star) ==
    /\ CanStart(c)
    /\ LET cs == SubmitStarCall([IdleCall EXCEPT !.op = "submitStar"],
                                address, message, signature, star)
       IN  /\ calls' = [calls EXCEPT ![c] = cs]
           /\ mq' = Enqueue(mq, c, cs)
    /\ UNCHANGED <<chain, height, nowMs, tampers>>

SubmitStarResume(c) ==
    /\ Runs(c, "submitStar:142")
    /\ calls' = [calls EXCEPT ![c] = Settle(calls[c])]
    /\ mq' = Tail(mq)
    /\ UNCHANGED <<chain, height, nowMs, tampers>>

\* ------------------------------------------------------ read operations
GetChainHeight(c) ==
    /\ CanStart(c)
    /\ calls' = [calls EXCEPT ![c] =
            [IdleCall EXCEPT !.op = "getChainHeight", !.pc = "done",
                             !.result = "resolved", !.ref = height]]
    /\ UNCHANGED <<chain, height, nowMs, mq, tampers>>

\* this.chain.find(test) || null: the JS index of the first block that
\* passes, -1 for null
Found_NeverNull(hits) ==
    IF hits = {} THEN 0 ELSE (CHOOSE k \in hits : \A n \in hits : k <= n) - 1
Found(hits) ==
    IF hits = {} THEN -1 ELSE (CHOOSE k \in hits : \A n \in hits : k <= n) - 1
FindByHash(ch, hash) == Found({k \in 1 .. Len(ch) : ch[k].hash = hash})
FindByHeight(ch, h) == Found({k \in 1 .. Len(ch) : ch[k].height = h})

GetBlockByHash(c, hash) ==
    /\ CanStart(c)
    /\ calls' = [calls EXCEPT ![c] =
            [IdleCall EXCEPT !.op = "getBlockByHash", !.pc = "done",
                             !.result = "resolved", !.ref = FindByHash(chain, hash)]]
    /\ UNCHANGED <<chain, height, nowMs, mq, tampers>>

GetBlockByHeight(c, h) ==
    /\ CanStart(c)
    /\ calls' = [calls EXCEPT ![c] =
            [IdleCall EXCEPT !.op = "getBlockByHeight", !.pc = "done",
                             !.result = "resolved", !.ref = FindByHeight(chain, h)]]
    /\ UNCHANGED <<chain, height, nowMs, mq, tampers>>

\* getStarsByWalletAddress: the loop test `i <= this.height` and the call of
\* chain[i].getBData()
StarsLoopTest(cs, n) ==
    IF n <= height
    THEN [cs EXCEPT !.i = n, !.blockData = Decode(chain[n + 1].body),
                    !.pc = "getStarsByWalletAddress:177"]
    ELSE [cs EXCEPT !.i = 0, !.blockData = <<>>, !.pc = "done", !.result = "resolved"]
StarsLoopBody_NoFilter(cs) == [cs EXCEPT !.value = Append(cs.value, cs.blockData)]
StarsLoopBody(cs) ==
    IF Owner(cs.blockData) = cs.address
    THEN [cs EXCEPT !.value = Append(cs.value, cs.blockData)]
    ELSE cs

GetStarsByWalletAddress(c, address) ==
    /\ CanStart(c)
    /\ LET cs == StarsLoopTest([IdleCall EXCEPT !.op = "getStarsByWalletAddress",
                                                !.address = address], 1)
       IN  /\ calls' = [calls EXCEPT ![c] = cs]
           /\ mq' = Enqueue(mq, c, cs)
    /\ UNCHANGED <<chain, height, nowMs, tampers>>

GetStarsResume(c) ==
    /\ Runs(c, "getStarsByWalletAddress:177")
    /\ LET cs == StarsLoopTest(StarsLoopBody(calls[c]), calls[c].i + 1)
       IN  /\ calls' = [calls EXCEPT ![c] = cs]
           /\ mq' = Enqueue(Tail(mq), c, cs)
    /\ UNCHANGED <<chain, height, nowMs, tampers>>

RequestMessageOwnershipVerification(c, address) ==
    /\ CanStart(c)
    /\ calls' = [calls EXCEPT ![c] =
            [IdleCall EXCEPT !.op = "requestMessageOwnershipVerification", !.pc = "done",
                             !.result = "resolved",
                             !.value = <<[text |-> address], [num |-> Sec(nowMs)],
                                         [text |-> "starRegistry"]>>]]
    /\ UNCHANGED <<chain, height, nowMs, mq, tampers>>

\* ---------------------------------------------------------- environment
Tick ==
    /\ nowMs < InitialTimeMs + 1000 * MaxTicks
    /\ nowMs' = nowMs + 1000
    /\ UNCHANGED <<chain, height, mq, calls, tampers>>

\* A caller writes to a field of a block object it was handed (the objects
\* returned by getBlockByHash, getBlockByHeight and submitStar are the ones
\* stored in this.chain).
ForgedData == <<"owner", "mallory", "data", "forged">>
ForgedHash == SHA256(<<"forged">>)
Tamper ==
    /\ tampers < MaxTampers
    /\ tampers' = tampers + 1
    /\ \E k \in 1 .. Len(chain) :
          \/ chain' = [chain EXCEPT ![k].body = Encode(ForgedData)]
          \/ chain' = [chain EXCEPT ![k].previousBlockHash = ForgedHash]
    /\ UNCHANGED <<height, nowMs, mq, calls>>

\* ------------------------------------------------------- specification
\* The state when `new Blockchain()` returns: the constructor's
\* initializeChain has run up to the await in _addBlock.
Init ==
    /\ chain = <<>>
    /\ height = -1
    /\ nowMs = InitialTimeMs
    /\ tampers = 0
    /\ calls = [c \in Calls |->
                  IF c = 0
                  THEN [IdleCall EXCEPT !.op = "initializeChain", !.pc = "_addBlock:65",
                                        !.block = NewBlock(GenesisData)]
                  ELSE IdleCall]
    /\ mq = <<0>>

Microtask ==
    \E c \in Calls :
        \/ ValidateChainResume(c)
        \/ AddBlockResume(c)
        \/ InitializeChainResume(c)
        \/ SubmitStarResume(c)

Next ==
    \/ \E c \in Calls : InitializeChain(c)
    \/ \E c \in Calls : ValidateChain(c)
    \/ \E c \in Calls, address \in Addresses, message \in Messages, star \in Stars :
          \E signature \in Signatures(message) :
            SubmitStar(c, address, message, signature, star)
    \/ \E c \in Calls : ValidateChainResume(c)
    \/ \E c \in Calls : AddBlockResume(c)
    \/ \E c \in Calls : InitializeChainResume(c)
    \/ \E c \in Calls : SubmitStarResume(c)
    \/ Tick

Spec == Init /\ [][Next]_vars

\* The public operations together with callers that tamper with blocks.
NextT == Next \/ Tamper
SpecT == Init /\ [][NextT]_vars

\* N clients submit stars with valid, fresh proofs; the event loop keeps
\* running the microtask queue.
ValidProof(address, message, signature) ==
    /\ Len(message) >= 2
    /\ "num" \in DOMAIN message[2]
    /\ Sec(nowMs) - message[2].num <= FreshnessWindow
    /\ signature = [signer |-> address, message |-> message]
SubmitValidStar(c) ==
    \E address \in Addresses, message \in Messages, star \in Stars :
      \E signature \in Signatures(message) :
        /\ ValidProof(address, message, signature)
        /\ SubmitStar(c, address, message, signature, star)
NextC1 ==
    \/ \E c \in Calls : SubmitValidStar(c)
    \/ \E c \in Calls : ValidateChainResume(c)
    \/ \E c \in Calls : AddBlockResume(c)
    \/ \E c \in Calls : InitializeChainResume(c)
    \/ \E c \in Calls : SubmitStarResume(c)
    \/ Tick
SpecC1 == Init /\ [][NextC1]_vars /\ WF_vars(Microtask)

\* ================================================================ claims
Started == {c \in 1 .. MaxCalls : calls[c].pc # "idle"}
Settled == mq = <<>>
Appending ==
    {c \in Calls : /\ calls[c].op \in {"initializeChain", "submitStar"}
                   /\ calls[c].pc \in {"validateChain:197", "_addBlock:65"}}
IsGenesis(b) == b.body = <<"data", "Genesis Block">>

\* C1: when N submitStar calls with valid, fresh proofs run concurrently on a
\* valid chain, all of them eventually resolve, and once they have the chain
\* holds exactly N star blocks at the contiguous heights 1..N, one per call,
\* and a validateChain run returns no error.
C1_AllAppended ==
    Settled =>
        /\ \A c \in Started : calls[c].result = "resolved"
        /\ Len(chain) = 1 + Cardinality(Started)
        /\ {chain[k].height : k \in 2 .. Len(chain)} = 1 .. Cardinality(Started)
        /\ {calls[c].ref : c \in Started} = 1 .. Cardinality(Started)
        /\ ValidateChainResult(chain, height) = <<>>
C1_ConcurrentSubmits == [](C1_AllAppended) /\ <>[](Settled)
C1_Witness ==
    /\ Settled
    /\ Cardinality(Started) = MaxCalls
    /\ Len(chain) = 1 + MaxCalls

\* C2: at most one _addBlock invocation is between the start of its
\* validateChain and its push at any time.
C2_AtMostOneAppend == Cardinality(Appending) <= 1

\* C3: every block after the first carries the hash of its predecessor as
\* previousBlockHash, and only the block at index 0 has none.
C3_LinkIntegrity ==
    \A k \in 1 .. Len(chain) :
        /\ k >= 2 => chain[k].previousBlockHash = chain[k - 1].hash
        /\ chain[k].previousBlockHash = NULL <=> k = 1
C3_Witness ==
    /\ Len(chain) >= 2
    /\ Cardinality(Appending) >= 1

C5_HashSelfConsistent ==
    \A k \in 1 .. Len(chain) :
        chain[k].hash =
            <<"sha256", <<NULL, chain[k].height, chain[k].body, chain[k].time,
                          chain[k].previousBlockHash>>>>
C5_Witness ==
    \E k \in 2 .. Len(chain) :
        /\ chain[k].time > Sec(InitialTimeMs)
        /\ chain[k].hash # NULL

\* C6: the chain never holds a 'Genesis Block' payload anywhere but at
\* height 0, so it holds at most one.
C6_SingleGenesis ==
    \A k \in 1 .. Len(chain) : IsGenesis(chain[k]) => k = 1

\* ---- ownership proof
Numeric(message) == Len(message) >= 2 /\ "num" \in DOMAIN message[2]
Genuine(address, message) == [signer |-> address, message |-> message]
StartsSubmit(c) == calls[c].pc = "idle" /\ calls'[c].op = "submitStar"
ProofErrors == {"Message timed out", "Couldn't verify message"}
InAddBlock(cs) == cs.pc \in {"validateChain:197", "_addBlock:65"}

\* C7: a submitStar whose message carries a numeric timestamp ts and whose
\* signature is valid is rejected with the expiry error exactly when
\* now - ts > 300 seconds; otherwise (299, exactly 300, a timestamp in the
\* future) it enters the append path, and on the valid chain it resolves.
C7_Step ==
    \A c \in 1 .. MaxCalls :
        /\ StartsSubmit(c) =>
              \A address \in Addresses, message \in Messages, star \in Stars :
                  (/\ Numeric(message)
                   /\ SubmitStar(c, address, message, Genuine(address, message), star))
                  => LET elapsed == Sec(nowMs) - message[2].num
                     IN  /\ calls'[c].result = "Message timed out" <=> elapsed > 300
                         /\ elapsed <= 300 => InAddBlock(calls'[c]) /\ mq' = Append(mq, c)
        /\ SubmitStarResume(c) => calls'[c].result = "resolved"
C8_Step ==
    \A c \in 1 .. MaxCalls :
        StartsSubmit(c) =>
            \A address \in Addresses, message \in Messages, star \in Stars :
                \A signature \in Signatures(message) :
                    (/\ ~Numeric(message)
                     /\ SubmitStar(c, address, message, signature, star))
                    => /\ calls'[c].pc = "done"
                       /\ calls'[c].result \notin {"pending", "resolved"}
C8_MalformedRejected == [][C8_Step]_vars

\* C9: a submitStar with an expired message is rejected with the expiry
\* error (whatever the signature), one with a fresh message and a signature
\* that does not verify is rejected with the verification error, on a valid
\* and on a corrupt chain alike; such a rejection changes nothing but the
\* call's own outcome: chain, height, the pending continuations and every
\* other call are as before, so a later valid submitStar is unaffected.
C9_Outcome ==
    (\E c \in Calls : CanStart(c)) =>
    \A address \in Addresses, message \in Messages, star \in Stars :
        \A signature \in Signatures(message) :
            LET cs == SubmitStarCall([IdleCall EXCEPT !.op = "submitStar"],
                                     address, message, signature, star)
                expired == Numeric(message) /\ Sec(nowMs) - message[2].num > 300
                forged == signature # Genuine(address, message)
            IN  /\ expired => cs.result = "Message timed out"
                /\ ~expired /\ forged => cs.result = "Couldn't verify message"
                /\ ~expired /\ ~forged => cs.result = "pending"
C9_Step ==
    \A c \in 1 .. MaxCalls :
        (StartsSubmit(c) /\ calls'[c].result \in ProofErrors) =>
            /\ calls'[c].pc = "done"
            /\ UNCHANGED <<chain, height, mq, nowMs, tampers>>
            /\ \A d \in Calls \ {c} : calls'[d] = calls[d]
C9_ProofFailureNoMutation == [](C9_Outcome) /\ [][C9_Step]_vars
C9_Witness ==
    \E c, d \in 1 .. MaxCalls :
        /\ c < d
        /\ calls[c].result \in ProofErrors
        /\ calls[d].op = "submitStar" /\ calls[d].result = "resolved"

\* C10: when the validateChain run of an _addBlock returned errors, the
\* _addBlock rejects with 'The chain is invalid' and leaves chain and height
\* as they were, and the submitStar awaiting it rejects with that error.
C10_Step ==
    \A c \in Calls :
        /\ (Runs(c, "_addBlock:65") /\ Len(calls[c].errorLog) > 0 /\ AddBlockResume(c))
              => /\ chain' = chain
                 /\ height' = height
                 /\ calls'[c].promise = "The chain is invalid"
        /\ (calls[c].promise = "The chain is invalid" /\ SubmitStarResume(c))
              => /\ calls'[c].result = "The chain is invalid"
                 /\ chain' = chain
                 /\ height' = height
C10_CorruptLeavesChain == [][C10_Step]_vars
C10_Witness ==
    \E c \in 1 .. MaxCalls :
        /\ calls[c].op = "submitStar"
        /\ calls[c].result = "The chain is invalid"
        /\ height = Len(chain) - 1

\* ---- all public operations
\* The instance right after construction, or later, when calls that have
\* returned have appended the genesis block and up to PreStars star blocks.
RECURSIVE ChainOf(_)
ChainOf(owners) ==
    IF owners = <<>>
    THEN <<Seal(NewBlock(GenesisData), 0, Sec(InitialTimeMs), NULL)>>
    ELSE LET ch == ChainOf(SubSeq(owners, 1, Len(owners) - 1))
             b == NewBlock(StarData(owners[Len(owners)], "star1"))
             h == Len(ch)
         IN  Append(ch, Seal(b, h, Sec(InitialTimeMs), PreviousHash(ch, h, b)))
OwnerLists == UNION {[1 .. n -> Addresses] : n \in 0 .. PreStars}
InitR ==
    \/ Init
    \/ /\ \E owners \in OwnerLists : chain = ChainOf(owners)
       /\ height = Len(chain) - 1
       /\ nowMs = InitialTimeMs
       /\ tampers = 0
       /\ calls = [c \in Calls |->
                     IF c = 0
                     THEN [IdleCall EXCEPT !.op = "initializeChain", !.pc = "done",
                                           !.ref = 0, !.result = "resolved"]
                     ELSE IdleCall]
       /\ mq = <<>>
Heights == -1 .. (MaxCalls + PreStars + 1)
Hashes == {chain[k].hash : k \in 1 .. Len(chain)} \cup {ForgedHash}
NextR ==
    \/ Next
    \/ \E c \in Calls : GetChainHeight(c)
    \/ \E c \in Calls, hash \in Hashes : GetBlockByHash(c, hash)
    \/ \E c \in Calls, h \in Heights : GetBlockByHeight(c, h)
    \/ \E c \in Calls, address \in Addresses : GetStarsByWalletAddress(c, address)
    \/ \E c \in Calls : GetStarsResume(c)
    \/ \E c \in Calls, address \in Addresses : RequestMessageOwnershipVerification(c, address)
SpecR == InitR /\ [][NextR]_vars

\* ---- validator
\* A caller tampers with a block while no validateChain call of a client is
\* running, and clients validate the chain.
Validating == {c \in Calls : calls[c].op = "validateChain" /\ calls[c].pc # "done"}
TamperQuiet == Validating = {} /\ Tamper
NextV == Next \/ TamperQuiet
SpecV == Init /\ [][NextV]_vars

Returns(c) ==
    /\ calls'[c].op = "validateChain"
    /\ calls'[c].pc = "done"
    /\ calls[c].pc # "done"
SelfCheckFails(b) ==
    b.hash # <<"sha256", <<NULL, b.height, b.body, b.time, b.previousBlockHash>>>>
Count(log, e) == Cardinality({p \in 1 .. Len(log) : log[p] = e})
BlockNamed(e) == CHOOSE k \in 1 .. Len(chain) : chain[k].hash = e.hash

\* C11: after the stored payload of any one block of a valid chain has been
\* changed, validateChain returns exactly one error, the invalid-hash error
\* of that block.
C11_Step ==
    \A c \in 1 .. MaxCalls :
        Returns(c) =>
            \A k \in 1 .. Len(chain) :
                (tampers = 1 /\ chain[k].body = ForgedData)
                => calls'[c].errorLog = <<[kind |-> "invalid", hash |-> chain[k].hash]>>
C11_PayloadTamperReported == [][C11_Step]_vars

\* C12: after only the stored previousBlockHash of the block at height
\* i >= 1 has been changed, validateChain reports the broken link of block i
\* and every error it returns names block i.
C12_Step ==
    \A c \in 1 .. MaxCalls :
        Returns(c) =>
            \A k \in 2 .. Len(chain) :
                (tampers = 1 /\ chain[k].previousBlockHash = ForgedHash)
                => /\ Count(calls'[c].errorLog,
                            [kind |-> "previous", hash |-> chain[k].hash]) = 1
                   /\ \A p \in 1 .. Len(calls'[c].errorLog) :
                          calls'[c].errorLog[p].hash = chain[k].hash
C12_LinkTamperReported == [][C12_Step]_vars
C12_Witness ==
    \E c \in 1 .. MaxCalls, k \in 2 .. Len(chain) :
        /\ chain[k].previousBlockHash = ForgedHash
        /\ calls[c].op = "validateChain" /\ calls[c].pc = "done"
        /\ Len(calls[c].errorLog) = 2

\* C13: validateChain never rejects and never writes chain or height; the
\* list it returns holds one invalid-hash error for each block at height
\* >= 1 that fails its self-check, one broken-link error for each block at
\* height >= 1 whose previousBlockHash is not its predecessor's hash, and
\* nothing else; it is in ascending height with the self-check error first;
\* it is empty for a chain of zero or one block.
C13_Step ==
    \A c \in 1 .. MaxCalls :
        /\ (calls'[c].op = "validateChain" /\ calls'[c] # calls[c])
              => chain' = chain /\ height' = height
        /\ Returns(c) =>
              LET log == calls'[c].errorLog
              IN  /\ calls'[c].result = "resolved"
                  /\ \A k \in 2 .. Len(chain) :
                        /\ Count(log, [kind |-> "invalid", hash |-> chain[k].hash])
                             = IF SelfCheckFails(chain[k]) THEN 1 ELSE 0
                        /\ Count(log, [kind |-> "previous", hash |-> chain[k].hash])
                             = IF chain[k].previousBlockHash # chain[k - 1].hash THEN 1 ELSE 0
                  /\ \A p \in 1 .. Len(log) :
                        \E k \in 2 .. Len(chain) : log[p].hash = chain[k].hash
                  /\ \A p, q \in 1 .. Len(log) :
                        p < q => \/ BlockNamed(log[p]) < BlockNamed(log[q])
                                 \/ /\ BlockNamed(log[p]) = BlockNamed(log[q])
                                    /\ log[p].kind = "invalid"
                                    /\ log[q].kind = "previous"
                  /\ Len(chain) <= 1 => log = <<>>
ReadOps == {"getChainHeight", "getBlockByHash", "getBlockByHeight",
            "getStarsByWalletAddress", "validateChain"}
StarsOf(address) ==
    LET stars == SelectSeq(SubSeq(chain', 2, Len(chain')),
                           LAMBDA b : b.body[1] = "owner" /\ b.body[2] = address)
    IN  [p \in 1 .. Len(stars) |-> [owner |-> stars[p].body[2], data |-> stars[p].body[4]]]

\* C14: getStarsByWalletAddress(A) resolves to the decoded payloads of the
\* blocks at height >= 1 whose owner is A, in chain order and nothing else,
\* as the chain is when the call returns (which includes every block that
\* was there when it started); no step of it writes chain or height.
C14_Step ==
    \A c \in 1 .. MaxCalls :
        (calls'[c].op = "getStarsByWalletAddress" /\ calls'[c] # calls[c]) =>
            /\ chain' = chain /\ height' = height
            /\ calls'[c].address \in Addresses
            /\ calls'[c].pc = "done" =>
                  /\ calls'[c].result = "resolved"
                  /\ calls'[c].value = StarsOf(calls'[c].address)
C15_RoundTrip ==
    \A c \in 1 .. MaxCalls :
        (calls[c].op = "submitStar" /\ calls[c].result = "resolved") =>
            LET b == chain[calls[c].ref + 1]
            IN  /\ FindByHeight(chain, b.height) = calls[c].ref
                /\ FindByHash(chain, b.hash) = calls[c].ref
C15_Step ==
    \A c \in 1 .. MaxCalls :
        /\ (calls[c].pc = "idle" /\ calls'[c].op = "getBlockByHeight")
             => /\ chain' = chain /\ height' = height
                /\ calls'[c].result = "resolved"
                /\ \A h \in Heights :
                      GetBlockByHeight(c, h)
                      => IF h \in 0 .. height
                         THEN /\ calls'[c].ref \in 0 .. height
                              /\ chain[calls'[c].ref + 1].height = h
                         ELSE calls'[c].ref = -1
        /\ (calls[c].pc = "idle" /\ calls'[c].op = "getBlockByHash")
             => /\ chain' = chain /\ height' = height
                /\ calls'[c].result = "resolved"
                /\ \A hash \in Hashes :
                      GetBlockByHash(c, hash)
                      => IF \E k \in 1 .. Len(chain) : chain[k].hash = hash
                         THEN /\ calls'[c].ref \in 0 .. height
                              /\ chain[calls'[c].ref + 1].hash = hash
                         ELSE calls'[c].ref = -1
C15_Lookups == [](C15_RoundTrip) /\ [][C15_Step]_vars
C15_Witness ==
    \E c, d \in 1 .. MaxCalls :
        /\ calls[c].op = "submitStar" /\ calls[c].result = "resolved"
        /\ calls[d].op \in {"getBlockByHeight", "getBlockByHash"}
        /\ calls[d].ref = calls[c].ref

\* C16: every step leaves the blocks already in the chain where and as they
\* are; the chain grows by at most one block, at the end, and height grows
\* by one exactly when it does and never shrinks.
C16_Step ==
    /\ Len(chain') \in {Len(chain), Len(chain) + 1}
    /\ SubSeq(chain', 1, Len(chain)) = chain
    /\ height' = height + (Len(chain') - Len(chain))
C16_AppendOnly == [][C16_Step]_vars
C16_Witness ==
    /\ Len(chain) >= 3
    /\ \E c \in 1 .. MaxCalls : calls[c].op \in ReadOps /\ calls[c].pc = "done"

\* C17: in every state a read can observe, height is the index of the last
\* block of the chain and every block of the chain has its height, time,
\* previousBlockHash and hash assigned.
C17_AtomicVisibility ==
    /\ height = Len(chain) - 1
    /\ \A k \in 1 .. Len(chain) :
          /\ chain[k].hash # NULL
          /\ chain[k].time >= Sec(InitialTimeMs)
          /\ chain[k].height = k - 1
          /\ k >= 2 => chain[k].previousBlockHash # NULL
    /\ \A c \in 1 .. MaxCalls :
          calls[c].pc = "getStarsByWalletAddress:177" => calls[c].i + 1 <= Len(chain)
C17_Witness ==
    \E c, d \in 1 .. MaxCalls :
        /\ calls[c].pc = "getStarsByWalletAddress:177"
        /\ calls[d].pc = "_addBlock:65"
        /\ Len(chain) >= 2

\* C18: every getChainHeight call resolves to a height >= 0, and whenever a
\* client can start a call the block at height 0 is there to be found.
C18_GenesisOnConstruction ==
    /\ \A c \in 1 .. MaxCalls :
          (calls[c].op = "getChainHeight" /\ calls[c].pc = "done") => calls[c].ref >= 0
    /\ (\E c \in Calls : CanStart(c)) => FindByHeight(chain, 0) = 0

\* C19: whenever an _addBlock pushes its block, a validateChain run on the
\* chain it pushes onto would return no error.
C19_Step ==
    \A c \in Calls :
        (AddBlockResume(c) /\ Len(chain') > Len(chain))
        => ValidateChainResult(chain, height) = <<>>
C19_NoAppendOnCorrupt == [][C19_Step]_vars

\* C20: a submitStar with a genuine signature and a message not older than
\* 300 seconds passes the proof checks in every state, whatever the chain
\* already holds (the same owner and star included), and its _addBlock
\* appends one block with that payload; requestMessageOwnershipVerification
\* resolves to address:now:starRegistry and changes nothing else.
C20_Replay ==
    (\E c \in Calls : CanStart(c)) =>
        \A address \in Addresses, message \in Messages, star \in Stars :
            (Numeric(message) /\ Sec(nowMs) - message[2].num <= 300)
            => LET cs == SubmitStarCall([IdleCall EXCEPT !.op = "submitStar"], address,
                                        message, Genuine(address, message), star)
               IN  /\ InAddBlock(cs)
                   /\ cs.block.body = <<"owner", address, "data", star>>
C20_Step ==
    \A c \in 1 .. MaxCalls :
        /\ (Runs(c, "_addBlock:65") /\ calls[c].op = "submitStar" /\ AddBlockResume(c))
             => /\ Len(chain') = Len(chain) + 1
                /\ chain'[Len(chain')].body = calls[c].block.body
        /\ (calls[c].pc = "idle" /\ calls'[c].op = "requestMessageOwnershipVerification")
             => /\ UNCHANGED <<chain, height, mq, nowMs, tampers>>
                /\ \A d \in Calls \ {c} : calls'[d] = calls[d]
                /\ calls'[c].pc = "done"
                /\ \E address \in Addresses :
                      calls'[c].value = <<[text |-> address], [num |-> nowMs \div 1000],
                                          [text |-> "starRegistry"]>>
C20_NotConsumed == [](C20_Replay) /\ [][C20_Step]_vars
C20_Witness ==
    \E c, d \in 1 .. MaxCalls :
        /\ c # d
        /\ calls[c].op = "submitStar" /\ calls[c].result = "resolved"
        /\ calls[d].op = "submitStar" /\ calls[d].result = "resolved"
        /\ chain[calls[c].ref + 1].body = chain[calls[d].ref + 1].body

====
